---- MODULE Spec2Model ----
(***************************************************************************)
(* J2F backend: the partial-update and partial-filter SQL translators      *)
(* (helpers/sql.js, models/company.js, models/job.js and the Job model     *)
(* revisions kept in unnamed/part_001) and the Company / Job repositories  *)
(* that run their statements against the companies and jobs tables.        *)
(*                                                                         *)
(* Text values (names, titles, ...) are sequences of one-character         *)
(* strings; SQL text is a TLA+ string.  A JS object is a sequence of       *)
(* [k, v] entries in Object.keys order (update data) or a function whose   *)
(* DOMAIN is the set of own keys (filters).                                *)
(***************************************************************************)
EXTENDS Integers, Sequences, FiniteSets, TLC

VARIABLES companies, jobs, nextId, pc, local, res, out

vars == <<companies, jobs, nextId, pc, local, res, out>>

-----------------------------------------------------------------------------
(* Bounds of the model *)

MaxLen == 2          \* longest update mapping
MaxEmployees == 2    \* employee counts / filter bounds are 0..MaxEmployees
MaxSalary == 1       \* salaries / minSalary are 0..MaxSalary
MaxJobs == 2         \* job ids handed out by the jobs id sequence

\* SQL NULL / JS null in a numeric position
NULL == -1
\* SQL NULL / JS null in a text position
NULLTEXT == <<"<", "n", "u", "l", "l", ">">>

-----------------------------------------------------------------------------
(* Generic helpers *)

RECURSIVE Join(_, _)
\* Array.prototype.join
Join(seq, sep) ==
  IF Len(seq) = 0 THEN ""
  ELSE IF Len(seq) = 1 THEN seq[1]
  ELSE seq[1] \o sep \o Join(Tail(seq), sep)

\* JS truthiness of a number that is not undefined
TruthyNum(n) == n # 0 /\ n # NULL

\* JS truthiness of a string that is not undefined
TruthyText(s) == s # <<>> /\ s # NULLTEXT

\* own key of a JS object / destructured value is not undefined
Has(obj, k) == k \in DOMAIN obj

\* `%${s}%`
Wrap(s) == <<"%">> \o s \o <<"%">>

\* injective sequences over S of length at most n (Object.keys of an object)
KeySeqs(S, n) ==
  UNION {{s \in [1..m -> S] : \A i, j \in 1..m : i # j => s[i] # s[j]} : m \in 0..n}

-----------------------------------------------------------------------------
(* helpers/sql.js: sqlForPartialUpdate *)

\* the jsToSql argument of Company.update
CompanyJsToSql == [numEmployees |-> "num_employees", logoUrl |-> "logo_url"]

\* the default jsToSql = {} (Job.update)
NoJsToSql == [k \in {} |-> ""]

\* jsToSql[colName] || colName
ColumnFor(jsToSql, colName) ==
  IF colName \in DOMAIN jsToSql /\ jsToSql[colName] # ""
  THEN jsToSql[colName]
  ELSE colName

\* $${idx + 1}, idx the 0-based index Array.prototype.map passes
Placeholder_ZeroBased(idx) == "$" \o ToString(idx)

Placeholder(idx) == "$" \o ToString(idx + 1)

\* keys.length === 0
NoData_Never(keys) == FALSE

NoData(keys) == Len(keys) = 0

sqlForPartialUpdate(dataToUpdate, jsToSql) ==
  LET keys == [i \in 1..Len(dataToUpdate) |-> dataToUpdate[i].k]
      cols == [i \in 1..Len(keys) |->
                 "\"" \o ColumnFor(jsToSql, keys[i]) \o "\"=" \o Placeholder(i - 1)]
  IN IF NoData(keys)
     THEN [err |-> "BadRequest", setCols |-> "", cols |-> <<>>, values |-> <<>>,
           assign |-> <<>>]
     ELSE [err |-> "none",
           setCols |-> Join(cols, ", "),
           cols |-> cols,
           values |-> [i \in 1..Len(dataToUpdate) |-> dataToUpdate[i].v],
           \* what the store reads in setCols: column i is set to parameter i
           assign |-> [i \in 1..Len(keys) |-> ColumnFor(jsToSql, keys[i])]]

-----------------------------------------------------------------------------
(* Filter translators.  A clause is [text, col, op, ph]: text is the SQL     *)
(* the code pushes, (col, op, ph) is what the store reads in it (ph = 0: no  *)
(* parameter).                                                               *)

EmptyFilterResult ==
  [err |-> "none", whereClauses |-> "", clauses |-> <<>>, values |-> <<>>]

FilterError(e) ==
  [err |-> e, whereClauses |-> "", clauses |-> <<>>, values |-> <<>>]

\* whereClauses.length + 1
NextIdx(whereClauses) == Len(whereClauses) + 1

Texts(whereClauses) == [i \in 1..Len(whereClauses) |-> whereClauses[i].text]

\* `WHERE ${whereClauses.join(" AND ")}`
WhereOf(whereClauses, values) ==
  [err |-> "none",
   whereClauses |-> "WHERE " \o Join(Texts(whereClauses), " AND "),
   clauses |-> whereClauses,
   values |-> values]

\* Object.keys(filters).length === 0
NoKeys_Never(filters) == FALSE

NoKeys(filters) == Cardinality(DOMAIN filters) = 0

\* minEmployees && maxEmployees && +minEmployees > +maxEmployees
BadRange(filters) ==
  /\ Has(filters, "minEmployees") /\ TruthyNum(filters["minEmployees"])
  /\ Has(filters, "maxEmployees") /\ TruthyNum(filters["maxEmployees"])
  /\ filters["minEmployees"] > filters["maxEmployees"]

\* the three pushes of Company._sqlForPartialFilter, in source order
CompanyPushes_NameFirst(filters) ==
  LET a == IF Has(filters, "name")
           THEN [w |-> <<[text |-> "name ILIKE $" \o ToString(NextIdx(<<>>)),
                          col |-> "name", op |-> "ILIKE", ph |-> NextIdx(<<>>)]>>,
                 v |-> <<Wrap(filters["name"])>>]
           ELSE [w |-> <<>>, v |-> <<>>]
      b == IF Has(filters, "minEmployees")
           THEN [w |-> Append(a.w, [text |-> "num_employees >= $" \o ToString(NextIdx(a.w)),
                                    col |-> "num_employees", op |-> ">=", ph |-> NextIdx(a.w)]),
                 v |-> Append(a.v, filters["minEmployees"])]
           ELSE a
      c == IF Has(filters, "maxEmployees")
           THEN [w |-> Append(b.w, [text |-> "num_employees <= $" \o ToString(NextIdx(b.w)),
                                    col |-> "num_employees", op |-> "<=", ph |-> NextIdx(b.w)]),
                 v |-> Append(b.v, filters["maxEmployees"])]
           ELSE b
  IN c

CompanyPushes(filters) ==
  LET a == IF Has(filters, "minEmployees")
           THEN [w |-> <<[text |-> "num_employees >= $" \o ToString(NextIdx(<<>>)),
                          col |-> "num_employees", op |-> ">=", ph |-> NextIdx(<<>>)]>>,
                 v |-> <<filters["minEmployees"]>>]
           ELSE [w |-> <<>>, v |-> <<>>]
      b == IF Has(filters, "maxEmployees")
           THEN [w |-> Append(a.w, [text |-> "num_employees <= $" \o ToString(NextIdx(a.w)),
                                    col |-> "num_employees", op |-> "<=", ph |-> NextIdx(a.w)]),
                 v |-> Append(a.v, filters["maxEmployees"])]
           ELSE a
      c == IF Has(filters, "name")
           THEN [w |-> Append(b.w, [text |-> "name ILIKE $" \o ToString(NextIdx(b.w)),
                                    col |-> "name", op |-> "ILIKE", ph |-> NextIdx(b.w)]),
                 v |-> Append(b.v, Wrap(filters["name"]))]
           ELSE b
  IN c

Company_sqlForPartialFilter(filters) ==
  IF NoKeys(filters) THEN EmptyFilterResult
  ELSE IF BadRange(filters) THEN FilterError("BadRequest")
  ELSE LET p == CompanyPushes(filters) IN WhereOf(p.w, p.v)

\* !title && !minSalary && !hasEquity
NothingTruthy(filters) ==
  /\ ~(Has(filters, "title") /\ TruthyText(filters["title"]))
  /\ ~(Has(filters, "minSalary") /\ TruthyNum(filters["minSalary"]))
  /\ ~(Has(filters, "hasEquity") /\ filters["hasEquity"] = TRUE)

\* the title and minSalary pushes shared by every revision of
\* Job._sqlForPartialFilter
JobPushes(filters) ==
  LET a == IF Has(filters, "title")
           THEN [w |-> <<[text |-> "title ILIKE $" \o ToString(NextIdx(<<>>)),
                          col |-> "title", op |-> "ILIKE", ph |-> NextIdx(<<>>)]>>,
                 v |-> <<Wrap(filters["title"])>>]
           ELSE [w |-> <<>>, v |-> <<>>]
      b == IF Has(filters, "minSalary")
           THEN [w |-> Append(a.w, [text |-> "salary >= $" \o ToString(NextIdx(a.w)),
                                    col |-> "salary", op |-> ">=", ph |-> NextIdx(a.w)]),
                 v |-> Append(a.v, filters["minSalary"])]
           ELSE a
  IN b

\* Job._sqlForPartialFilter, the revision with `hasEquity === true`
Job_sqlForPartialFilter(filters) ==
  IF NoKeys(filters) THEN EmptyFilterResult
  ELSE IF NothingTruthy(filters) THEN EmptyFilterResult
  ELSE LET b == JobPushes(filters)
           c == IF Has(filters, "hasEquity") /\ filters["hasEquity"] = TRUE
                THEN Append(b.w, [text |-> "equity > 0",
                                  col |-> "equity", op |-> ">0", ph |-> 0])
                ELSE b.w
       IN WhereOf(c, b.v)

\* Job._sqlForPartialFilter, the "use strict" revisions with
\* `hasEquity !== true`
Job_sqlForPartialFilter_strict(filters) ==
  IF NoKeys(filters) THEN EmptyFilterResult
  ELSE IF NothingTruthy(filters) THEN EmptyFilterResult
  ELSE LET b == JobPushes(filters)
           c == IF ~(Has(filters, "hasEquity") /\ filters["hasEquity"] = TRUE)
                THEN Append(b.w, [text |-> "hasEquity > 0}",
                                  col |-> "hasEquity", op |-> ">0", ph |-> 0])
                ELSE b.w
       IN WhereOf(c, b.v)

\* the WHERE part Job.findAll of models/job.js builds inline
Job_findAll_where(filters) ==
  LET a == IF Has(filters, "minSalary")
           THEN [v |-> <<filters["minSalary"]>>,
                 w |-> <<[text |-> "salary >= $" \o ToString(1),
                          col |-> "salary", op |-> ">=", ph |-> 1]>>]
           ELSE [v |-> <<>>, w |-> <<>>]
      b == IF Has(filters, "hasEquity") /\ filters["hasEquity"] = TRUE
           THEN [v |-> a.v,
                 w |-> a.w \o <<[text |-> "equity > 0",
                                 col |-> "equity", op |-> ">0", ph |-> 0],
                                [text |-> "equity IS NOT NULL",
                                 col |-> "equity", op |-> "NOTNULL", ph |-> 0]>>]
           ELSE a
      c == IF Has(filters, "title")
           THEN LET v == Append(b.v, Wrap(filters["title"]))
                IN [v |-> v,
                    w |-> Append(b.w, [text |-> "title ILIKE $" \o ToString(Len(v)),
                                       col |-> "title", op |-> "ILIKE", ph |-> Len(v)])]
           ELSE b
  IN [err |-> "none",
      whereClauses |-> IF Len(c.w) > 0
                       THEN " WHERE " \o Join(Texts(c.w), " AND ")
                       ELSE "",
      clauses |-> c.w,
      values |-> c.v]

-----------------------------------------------------------------------------
(* Inputs *)

\* numbers a caller passes: null or 0..n
Nums(n) == {NULL} \cup (0..n)

\* text a caller passes in an update
UpdateTexts == {<<"N">>, NULLTEXT}

\* search text of a filter (the empty string included)
FilterTexts == {<<>>, <<"c">>, <<"2">>}

CompanyUpdateKeys == {"name", "description", "numEmployees", "logoUrl"}
JobUpdateKeys == {"title", "salary", "equity"}
NumericKeys == {"numEmployees", "salary", "equity"}

\* the object whose Object.keys are ks, entry i holding nums[i] or texts[i]
DataOf(ks, nums, texts) ==
  [i \in 1..Len(ks) |->
     [k |-> ks[i], v |-> IF ks[i] \in NumericKeys THEN nums[i] ELSE texts[i]]]

CompanyFilterKeys == {"minEmployees", "maxEmployees", "name", "other"}
JobFilterKeys == {"title", "minSalary", "hasEquity", "other"}

CompanyFilterOf(ks, mn, mx, nm) ==
  [k \in ks |-> CASE k = "minEmployees" -> mn
                  [] k = "maxEmployees" -> mx
                  [] k = "name" -> nm
                  [] OTHER -> 1]

JobFilterOf(ks, t, ms, he) ==
  [k \in ks |-> CASE k = "title" -> t
                  [] k = "minSalary" -> ms
                  [] k = "hasEquity" -> he
                  [] OTHER -> 1]

-----------------------------------------------------------------------------
(* The translators as called functions: out is a call, its argument and,    *)
(* once the call has run, what it returned.                                 *)

Pending(fn, arg) == [fn |-> fn, arg |-> arg, done |-> FALSE, r |-> <<>>]

Returned(r) == [out EXCEPT !.done = TRUE, !.r = r]

Call_sqlForPartialUpdate ==
  /\ out.fn = "sqlForPartialUpdate" /\ ~out.done
  /\ out' = Returned(sqlForPartialUpdate(out.arg.dataToUpdate, out.arg.jsToSql))
  /\ UNCHANGED <<companies, jobs, nextId, pc, local, res>>

Call_Company_sqlForPartialFilter ==
  /\ out.fn = "Company._sqlForPartialFilter" /\ ~out.done
  /\ out' = Returned(Company_sqlForPartialFilter(out.arg))
  /\ UNCHANGED <<companies, jobs, nextId, pc, local, res>>

Call_Job_sqlForPartialFilter ==
  /\ out.fn = "Job._sqlForPartialFilter" /\ ~out.done
  /\ out' = Returned(Job_sqlForPartialFilter(out.arg))
  /\ UNCHANGED <<companies, jobs, nextId, pc, local, res>>

Call_Job_sqlForPartialFilter_strict ==
  /\ out.fn = "Job._sqlForPartialFilter (strict)" /\ ~out.done
  /\ out' = Returned(Job_sqlForPartialFilter_strict(out.arg))
  /\ UNCHANGED <<companies, jobs, nextId, pc, local, res>>

Call_Job_findAll_where ==
  /\ out.fn = "Job.findAll" /\ ~out.done
  /\ out' = Returned(Job_findAll_where(out.arg))
  /\ UNCHANGED <<companies, jobs, nextId, pc, local, res>>

JobFilterFns ==
  {"Job._sqlForPartialFilter", "Job._sqlForPartialFilter (strict)", "Job.findAll"}

InitSql ==
  /\ companies = {} /\ jobs = {} /\ nextId = 1
  /\ pc = <<>> /\ local = <<>> /\ res = <<>>
  /\ \/ \E ks \in KeySeqs(CompanyUpdateKeys \cup JobUpdateKeys, MaxLen),
           nums \in [1..MaxLen -> Nums(MaxEmployees)],
           texts \in [1..MaxLen -> UpdateTexts],
           jsToSql \in {CompanyJsToSql, NoJsToSql} :
          out = Pending("sqlForPartialUpdate",
                        [dataToUpdate |-> DataOf(ks, nums, texts),
                         jsToSql |-> jsToSql])
     \/ \E ks \in SUBSET CompanyFilterKeys,
           mn \in 0..MaxEmployees, mx \in 0..MaxEmployees, nm \in FilterTexts :
          out = Pending("Company._sqlForPartialFilter",
                        CompanyFilterOf(ks, mn, mx, nm))
     \/ \E fn \in JobFilterFns, ks \in SUBSET JobFilterKeys,
           t \in FilterTexts, ms \in 0..MaxSalary, he \in BOOLEAN :
          out = Pending(fn, JobFilterOf(ks, t, ms, he))

NextSql ==
  \/ Call_sqlForPartialUpdate
  \/ Call_Company_sqlForPartialFilter
  \/ Call_Job_sqlForPartialFilter
  \/ Call_Job_sqlForPartialFilter_strict
  \/ Call_Job_findAll_where

SpecSql == InitSql /\ [][NextSql]_vars

-----------------------------------------------------------------------------
(* Claims about the translators (checked under SpecSql) *)

\* C1: for every non-empty update mapping, with or without column overrides,
\* sqlForPartialUpdate returns one clause per key in key order, clause i
\* being "<column>"=$i (column = the override of key i if there is one, else
\* the key), joined by ", ", and a value list of the same length whose i-th
\* element is the value of key i.
C1_PartialUpdateClauses ==
  (out.fn = "sqlForPartialUpdate" /\ out.done /\ Len(out.arg.dataToUpdate) > 0) =>
    LET d == out.arg.dataToUpdate
        js == out.arg.jsToSql
        r == out.r
        column(i) == IF d[i].k \in DOMAIN js THEN js[d[i].k] ELSE d[i].k
        clause(i) == "\"" \o column(i) \o "\"=$" \o ToString(i)
    IN /\ r.err = "none"
       /\ Len(r.cols) = Len(d)
       /\ \A i \in 1..Len(d) : r.cols[i] = clause(i)
       /\ r.setCols = Join([i \in 1..Len(d) |-> clause(i)], ", ")
       /\ Len(r.values) = Len(d)
       /\ \A i \in 1..Len(d) : r.values[i] = d[i].v

\* an update of a plain key and an overridden key has been translated
C1_Witness ==
  /\ out.fn = "sqlForPartialUpdate" /\ out.done
  /\ out.arg.jsToSql = CompanyJsToSql
  /\ Len(out.arg.dataToUpdate) = 2
  /\ out.arg.dataToUpdate[1].k = "name"
  /\ out.arg.dataToUpdate[2].k = "logoUrl"
  /\ out.r.setCols = "\"name\"=$1, \"logo_url\"=$2"
  /\ out.r.values = <<out.arg.dataToUpdate[1].v, out.arg.dataToUpdate[2].v>>

\* the recognised keys of a Company filter, in the documented clause order
CompanyPresent(f) ==
  LET T(k) == k \in DOMAIN f
  IN SelectSeq(<<"minEmployees", "maxEmployees", "name">>, T)

\* C3: a Company filter with at least one of minEmployees, maxEmployees,
\* name that passes the range check yields 'WHERE ' followed by the clauses
\* of the present keys joined by ' AND ', in the order minEmployees,
\* maxEmployees, name, placeholders numbered 1..n in clause order, values in
\* the same order, the name wrapped as %name%.
C3_CompanyFilterClauses ==
  (/\ out.fn = "Company._sqlForPartialFilter" /\ out.done
   /\ out.r.err = "none"
   /\ CompanyPresent(out.arg) # <<>>) =>
    LET f == out.arg
        r == out.r
        present == CompanyPresent(f)
        text(i) == CASE present[i] = "minEmployees" -> "num_employees >= $" \o ToString(i)
                     [] present[i] = "maxEmployees" -> "num_employees <= $" \o ToString(i)
                     [] present[i] = "name" -> "name ILIKE $" \o ToString(i)
    IN /\ r.whereClauses =
            "WHERE " \o Join([i \in 1..Len(present) |-> text(i)], " AND ")
       /\ Len(r.values) = Len(present)
       /\ \A i \in 1..Len(present) :
            r.values[i] = IF present[i] = "name"
                          THEN <<"%">> \o f["name"] \o <<"%">>
                          ELSE f[present[i]]

\* a filter with all three keys has been translated
C3_Witness ==
  /\ out.fn = "Company._sqlForPartialFilter" /\ out.done
  /\ {"minEmployees", "maxEmployees", "name"} \subseteq DOMAIN out.arg
  /\ out.r.whereClauses =
       "WHERE num_employees >= $1 AND num_employees <= $2 AND name ILIKE $3"
  /\ out.r.values = <<1, 2, <<"%", "c", "%">>>>

\* C4: for all non-negative bounds (0 included), Company._sqlForPartialFilter
\* fails with BadRequest whenever minEmployees and maxEmployees are both
\* present and minEmployees exceeds maxEmployees.
C4_BadRangeRejected ==
  (/\ out.fn = "Company._sqlForPartialFilter" /\ out.done
   /\ Has(out.arg, "minEmployees") /\ Has(out.arg, "maxEmployees")
   /\ out.arg["minEmployees"] > out.arg["maxEmployees"]) =>
    out.r.err = "BadRequest"

IsEquityClause(c) == c.col \in {"equity", "hasEquity"}

HasEquityTrue(f) == Has(f, "hasEquity") /\ f["hasEquity"] = TRUE

\* C6: for every Job filter with hasEquity true the predicate holds exactly
\* one equity clause, the literal 'equity > 0', without a placeholder or a
\* value; a filter of minSalary and hasEquity true yields
\* 'salary >= $1 AND equity > 0' with values [minSalary].
C6_OneEquityClause ==
  (out.fn \in JobFilterFns /\ out.done /\ HasEquityTrue(out.arg)) =>
    LET f == out.arg
        r == out.r
    IN /\ Texts(SelectSeq(r.clauses, IsEquityClause)) = <<"equity > 0">>
       /\ \A i \in 1..Len(r.clauses) :
            IsEquityClause(r.clauses[i]) => r.clauses[i].ph = 0
       /\ Len(r.values) = Cardinality(DOMAIN f \cap {"title", "minSalary"})
       /\ (DOMAIN f \ {"other"} = {"minSalary", "hasEquity"} =>
             /\ Texts(r.clauses) = <<"salary >= $1", "equity > 0">>
             /\ r.values = <<f["minSalary"]>>)

\* C7: a Job filter whose hasEquity is false or absent yields a predicate
\* without an equity clause, and a filter of hasEquity=false alone yields
\* the empty predicate and the empty value list.
C7_NoEquityClause ==
  (out.fn \in JobFilterFns /\ out.done /\ ~HasEquityTrue(out.arg)) =>
    /\ SelectSeq(out.r.clauses, IsEquityClause) = <<>>
    /\ (DOMAIN out.arg = {"hasEquity"} =>
          out.r.whereClauses = "" /\ out.r.values = <<>>)

\* C8: for every Job filter with title and minSalary, the title clause comes
\* before the salary clause, followed by the equity clause if hasEquity is
\* true, with values ['%title%', minSalary], wherever the predicate is built.
C8_TitleBeforeSalary ==
  (/\ out.fn \in JobFilterFns /\ out.done
   /\ Has(out.arg, "title") /\ Has(out.arg, "minSalary")) =>
    /\ Texts(out.r.clauses) =
         <<"title ILIKE $1", "salary >= $2">>
           \o (IF HasEquityTrue(out.arg) THEN <<"equity > 0">> ELSE <<>>)
    /\ Len(out.r.values) = 2
    /\ out.r.values[1] = <<"%">> \o out.arg["title"] \o <<"%">>
    /\ out.r.values[2] = out.arg["minSalary"]

HasPlaceholder(c) == c.ph > 0

\* C22: whenever Company._sqlForPartialFilter returns without error, its
\* predicate is the empty string exactly when none of minEmployees,
\* maxEmployees, name is present (a filter of unrecognised keys included),
\* and otherwise 'WHERE ' followed by at least one clause; the number of
\* placeholders in the predicate equals the length of the value list.
C22_CompanyPredicate ==
  (/\ out.fn = "Company._sqlForPartialFilter" /\ out.done
   /\ out.r.err = "none") =>
    /\ (out.r.whereClauses = "") <=> (CompanyPresent(out.arg) = <<>>)
    /\ (out.r.whereClauses # "") =>
          /\ Len(out.r.clauses) >= 1
          /\ out.r.whereClauses =
               "WHERE " \o Join(Texts(out.r.clauses), " AND ")
    /\ Len(SelectSeq(out.r.clauses, HasPlaceholder)) = Len(out.r.values)

\* C23: for every Job filter in which minSalary is present, 0 included,
\* the predicate contains the clause 'salary >= $k' with minSalary at
\* position k of the value list, whatever other keys are present.
C23_MinSalaryClause ==
  (out.fn \in JobFilterFns /\ out.done /\ Has(out.arg, "minSalary")) =>
    \E i \in 1..Len(out.r.clauses) :
      LET c == out.r.clauses[i]
      IN /\ c.col = "salary" /\ c.op = ">="
         /\ c.ph \in 1..Len(out.r.values)
         /\ c.text = "salary >= $" \o ToString(c.ph)
         /\ out.r.values[c.ph] = out.arg["minSalary"]

-----------------------------------------------------------------------------
(* The store: the companies and jobs tables, and how it reads the           *)
(* statements the repositories send.                                        *)

\* RETURNING / SELECT handle, name, description,
\*   num_employees AS "numEmployees", logo_url AS "logoUrl"
CompanyRecord(row) ==
  [handle |-> row.handle, name |-> row.name, description |-> row.description,
   numEmployees |-> row.num_employees, logoUrl |-> row.logo_url]

Digit(n) ==
  CASE n = 0 -> "0" [] n = 1 -> "1" [] n = 2 -> "2" [] n = 3 -> "3" [] n = 4 -> "4"
    [] n = 5 -> "5" [] n = 6 -> "6" [] n = 7 -> "7" [] n = 8 -> "8" [] n = 9 -> "9"

\* a NUMERIC column as the driver hands it back: text ("0.5"), equity being
\* kept in tenths
NumericText(e) ==
  IF e = NULL THEN NULLTEXT
  ELSE IF e % 10 = 0 THEN <<Digit(e \div 10)>>
  ELSE <<Digit(e \div 10), ".", Digit(e % 10)>>

\* RETURNING / SELECT id, title, salary, equity, company_handle AS "companyHandle"
JobRecord(row) ==
  [id |-> row.id, title |-> row.title, salary |-> row.salary,
   equity |-> NumericText(row.equity), companyHandle |-> row.company_handle]

\* SELECT handle FROM companies WHERE handle = $1
CompaniesByHandle(handle) == {c \in companies : c.handle = handle}

\* companies.handle is the primary key
CompaniesPK_Unchecked(row) == TRUE

CompaniesPK(row) == \A c \in companies : c.handle # row.handle

\* jobs.id is the primary key
JobsPK(row) == \A j \in jobs : j.id # row.id

\* jobs.company_handle references companies.handle: the row names a company
JobsFK_Unchecked(row) == TRUE

JobsFK(row) == \E c \in companies : c.handle = row.company_handle

\* the primary keys and the reference, of whole tables (after an UPDATE)
CompaniesUnique(table) == \A a, b \in table : a.handle = b.handle => a = b

JobsUnique(table) == \A a, b \in table : a.id = b.id => a = b

References(jobsTable, companiesTable) ==
  \A j \in jobsTable : \E c \in companiesTable : c.handle = j.company_handle

\* the jobs that go with deleted companies (the reference cascades a delete)
Cascade(deleted) == {j \in jobs : \E c \in deleted : j.company_handle = c.handle}

Lower(c) ==
  CASE c = "C" -> "c" [] c = "D" -> "d" [] c = "J" -> "j" [] c = "N" -> "n"
    [] OTHER -> c

RECURSIVE LikeMatch(_, _)
\* text ILIKE pattern: % matches any run of characters, _ any one character,
\* letters match without regard to case
LikeMatch(text, pattern) ==
  IF pattern = <<>> THEN text = <<>>
  ELSE IF Head(pattern) = "%"
       THEN \/ LikeMatch(text, Tail(pattern))
            \/ (text # <<>> /\ LikeMatch(Tail(text), pattern))
  ELSE IF text = <<>> THEN FALSE
  ELSE /\ (Head(pattern) = "_" \/ Lower(Head(pattern)) = Lower(Head(text)))
       /\ LikeMatch(Tail(text), Tail(pattern))

\* one clause of a WHERE predicate on one row (SQL three-valued logic: a
\* comparison with NULL does not select the row)
ClauseHolds(row, clause, values) ==
  CASE clause.op = ">=" ->
         row[clause.col] # NULL /\ values[clause.ph] # NULL
         /\ row[clause.col] >= values[clause.ph]
    [] clause.op = "<=" ->
         row[clause.col] # NULL /\ values[clause.ph] # NULL
         /\ row[clause.col] <= values[clause.ph]
    [] clause.op = "ILIKE" ->
         row[clause.col] # NULLTEXT /\ values[clause.ph] # NULLTEXT
         /\ LikeMatch(row[clause.col], values[clause.ph])
    [] clause.op = ">0" -> row[clause.col] # NULL /\ row[clause.col] > 0
    [] clause.op = "NOTNULL" -> row[clause.col] # NULL

\* the rows of a table a predicate selects
Selected(table, clauses, values) ==
  {row \in table : \A i \in 1..Len(clauses) : ClauseHolds(row, clauses[i], values)}

Ascii(c) ==
  CASE c = "." -> 46 [] c = "0" -> 48 [] c = "1" -> 49 [] c = "2" -> 50
    [] c = "<" -> 60 [] c = ">" -> 62
    [] c = "C" -> 67 [] c = "D" -> 68 [] c = "J" -> 74 [] c = "N" -> 78
    [] c = "c" -> 99 [] c = "d" -> 100 [] c = "j" -> 106 [] c = "l" -> 108
    [] c = "n" -> 110 [] c = "u" -> 117 [] OTHER -> 0

\* the text collations the database may have been created with
Collations == {"C", "en_US"}

Weight(coll, c) == IF coll = "C" THEN Ascii(c) ELSE Ascii(Lower(c))

RECURSIVE TextLeq(_, _, _)
\* a sorts at or before b
TextLeq(coll, a, b) ==
  IF a = <<>> THEN TRUE
  ELSE IF b = <<>> THEN FALSE
  ELSE IF Weight(coll, Head(a)) # Weight(coll, Head(b))
       THEN Weight(coll, Head(a)) < Weight(coll, Head(b))
  ELSE TextLeq(coll, Tail(a), Tail(b))

\* ORDER BY col (ascending, NULLs last): the orders the store may return
\* the rows in
OrderedBy(rows, col) ==
  {s \in [1..Cardinality(rows) -> rows] :
     /\ \A i, j \in 1..Cardinality(rows) : i # j => s[i] # s[j]
     /\ \E coll \in Collations :
          \A i, j \in 1..Cardinality(rows) :
            i < j => \/ s[j][col] = NULLTEXT
                     \/ (s[i][col] # NULLTEXT /\ TextLeq(coll, s[i][col], s[j][col]))}

CompanyColumns == {"handle", "name", "description", "num_employees", "logo_url"}
JobColumns == {"id", "title", "salary", "equity", "company_handle"}

\* UPDATE ... SET "column i"=$i: the row with every assigned column set
Assigned(row, assign, values) ==
  [col \in DOMAIN row |->
     IF \E i \in 1..Len(assign) : assign[i] = col
     THEN values[CHOOSE i \in 1..Len(assign) :
                   assign[i] = col /\ \A j \in 1..Len(assign) : assign[j] = col => j <= i]
     ELSE row[col]]

\* SET names one column twice: the store rejects the statement
MultipleAssignments(assign) ==
  \E i, j \in 1..Len(assign) : i # j /\ assign[i] = assign[j]

-----------------------------------------------------------------------------
(* The repositories.  Each action is one round trip to the store together   *)
(* with the code that runs before it (from the call or the previous         *)
(* round trip) and after it (up to the next round trip or the return).      *)
(* pc[p] is where caller p stands, local[p] the arguments of its call in    *)
(* flight, res[p] the outcome of its last finished call.                    *)

NoResult == [op |-> "none", arg |-> <<>>, err |-> "none", ret |-> <<>>, sql |-> <<>>]

\* the call op(arg) threw e, having built the statement parts sql
Threw(op, arg, e, sql) == [op |-> op, arg |-> arg, err |-> e, ret |-> <<>>, sql |-> sql]

\* the call op(arg) returned ret, having built the statement parts sql
Gave(op, arg, ret, sql) == [op |-> op, arg |-> arg, err |-> "none", ret |-> ret, sql |-> sql]

Finish(p, result) ==
  /\ res' = [res EXCEPT ![p] = result]
  /\ pc' = [pc EXCEPT ![p] = "idle"]
  /\ local' = [local EXCEPT ![p] = <<>>]

\* if (duplicateCheck.rows[0])
IsDuplicate_Never(rows) == FALSE

IsDuplicate(rows) == rows # {}

\* Company.create: the duplicate check
Company_create_check(p, data) ==
  /\ pc[p] = "idle"
  /\ IF IsDuplicate(CompaniesByHandle(data.handle))
     THEN Finish(p, Threw("Company.create", data, "BadRequest", <<>>))
     ELSE /\ pc' = [pc EXCEPT ![p] = "Company.create:insert"]
          /\ local' = [local EXCEPT ![p] = data]
          /\ UNCHANGED res
  /\ UNCHANGED <<companies, jobs, nextId, out>>

\* Company.create: INSERT INTO companies ... RETURNING
Company_create_insert(p) ==
  /\ pc[p] = "Company.create:insert"
  /\ LET data == local[p]
         row == [handle |-> data.handle, name |-> data.name,
                 description |-> data.description,
                 num_employees |-> data.numEmployees, logo_url |-> data.logoUrl]
     IN IF CompaniesPK(row)
        THEN /\ companies' = companies \cup {row}
             /\ Finish(p, Gave("Company.create", data, CompanyRecord(row), <<>>))
        ELSE /\ UNCHANGED companies
             /\ Finish(p, Threw("Company.create", data, "DbError", <<>>))
  /\ UNCHANGED <<jobs, nextId, out>>

\* Company.findAll
Company_findAll(p, filterBy) ==
  /\ pc[p] = "idle"
  /\ LET q == Company_sqlForPartialFilter(filterBy)
     IN IF q.err # "none"
        THEN Finish(p, Threw("Company.findAll", filterBy, q.err, q))
        ELSE \E rows \in OrderedBy(Selected(companies, q.clauses, q.values), "name") :
               Finish(p, Gave("Company.findAll", filterBy,
                              [i \in 1..Len(rows) |-> CompanyRecord(rows[i])], q))
  /\ UNCHANGED <<companies, jobs, nextId, out>>

\* rows[0] of a result without rows
Undefined == [undefined |-> TRUE]

\* result.rows[0]
FirstRow(rows) == IF rows = {} THEN Undefined ELSE CHOOSE r \in rows : TRUE

\* if (!company) / if (!job) of update
NotUpdated_Never(row) == FALSE

NotUpdated_Always(row) == TRUE

NotUpdated(row) == row = Undefined

\* Company.update
Company_update(p, handle, data) ==
  /\ pc[p] = "idle"
  /\ LET u == sqlForPartialUpdate(data, CompanyJsToSql)
         handleVarIdx == Len(u.values) + 1
         params == Append(u.values, handle)
         matched == CompaniesByHandle(params[handleVarIdx])
         updated == {Assigned(c, u.assign, params) : c \in matched}
     IN IF u.err # "none"
        THEN /\ UNCHANGED companies
             /\ Finish(p, Threw("Company.update", <<handle, data>>, u.err, u))
        ELSE IF \/ Len(u.assign) = 0
                \/ \E i \in 1..Len(u.assign) : u.assign[i] \notin CompanyColumns
                \/ MultipleAssignments(u.assign)
                \/ ~CompaniesUnique((companies \ matched) \cup updated)
                \/ ~References(jobs, (companies \ matched) \cup updated)
        THEN /\ UNCHANGED companies
             /\ Finish(p, Threw("Company.update", <<handle, data>>, "DbError", u))
        ELSE /\ companies' = (companies \ matched) \cup updated
             /\ LET company == FirstRow({CompanyRecord(c) : c \in updated})
                IN IF NotUpdated(company)
                   THEN Finish(p, Threw("Company.update", <<handle, data>>, "NotFound", u))
                   ELSE Finish(p, Gave("Company.update", <<handle, data>>, company, u))
  /\ UNCHANGED <<jobs, nextId, out>>

\* if (checkCompanyExists.rows[0] === undefined)
CompanyMissing_Never(rows) == FALSE

CompanyMissing(rows) == rows = {}

\* Job.create: the check that the company exists
Job_create_check(p, data) ==
  /\ pc[p] = "idle"
  /\ nextId <= MaxJobs
  /\ IF CompanyMissing(CompaniesByHandle(data.companyHandle))
     THEN Finish(p, Threw("Job.create", data, "BadRequest", <<>>))
     ELSE /\ pc' = [pc EXCEPT ![p] = "Job.create:insert"]
          /\ local' = [local EXCEPT ![p] = data]
          /\ UNCHANGED res
  /\ UNCHANGED <<companies, jobs, nextId, out>>

\* the id the jobs id sequence hands to an INSERT
GeneratedId == nextId

\* Job.create: INSERT INTO jobs ... RETURNING
Job_create_insert(p) ==
  /\ pc[p] = "Job.create:insert"
  /\ LET data == local[p]
         row == [id |-> GeneratedId, title |-> data.title, salary |-> data.salary,
                 equity |-> data.equity, company_handle |-> data.companyHandle]
     IN IF JobsPK(row) /\ JobsFK(row)
        THEN /\ jobs' = jobs \cup {row}
             /\ Finish(p, Gave("Job.create", data, JobRecord(row), <<>>))
        ELSE /\ UNCHANGED jobs
             /\ Finish(p, Threw("Job.create", data, "DbError", <<>>))
  /\ nextId' = nextId + 1
  /\ UNCHANGED <<companies, out>>

\* the row Job.findAll returns for a job: the job and, through the LEFT
\* JOIN, the name of its company (NULL when no company has its handle)
JobWithCompanyName(row) ==
  [id |-> row.id, title |-> row.title, salary |-> row.salary,
   equity |-> NumericText(row.equity), companyHandle |-> row.company_handle,
   companyName |-> IF CompaniesByHandle(row.company_handle) = {} THEN NULLTEXT
                   ELSE (CHOOSE c \in CompaniesByHandle(row.company_handle) : TRUE).name]

\* Job.findAll (models/job.js)
Job_findAll(p, filters) ==
  /\ pc[p] = "idle"
  /\ LET q == Job_findAll_where(filters)
     IN \E rows \in OrderedBy(Selected(jobs, q.clauses, q.values), "title") :
          Finish(p, Gave("Job.findAll", filters,
                         [i \in 1..Len(rows) |-> JobWithCompanyName(rows[i])], q))
  /\ UNCHANGED <<companies, jobs, nextId, out>>

\* SELECT ... FROM jobs WHERE id = $1
JobsById_All(id) == jobs

JobsById(id) == {j \in jobs : j.id = id}

\* Job.update
Job_update(p, id, data) ==
  /\ pc[p] = "idle"
  /\ LET u == sqlForPartialUpdate(data, NoJsToSql)
         idVarIdx == Len(u.values) + 1
         params == Append(u.values, id)
         matched == JobsById(params[idVarIdx])
         updated == {Assigned(j, u.assign, params) : j \in matched}
     IN IF u.err # "none"
        THEN /\ UNCHANGED jobs
             /\ Finish(p, Threw("Job.update", <<id, data>>, u.err, u))
        ELSE IF \/ Len(u.assign) = 0
                \/ \E i \in 1..Len(u.assign) : u.assign[i] \notin JobColumns
                \/ MultipleAssignments(u.assign)
                \/ ~JobsUnique((jobs \ matched) \cup updated)
                \/ ~References((jobs \ matched) \cup updated, companies)
        THEN /\ UNCHANGED jobs
             /\ Finish(p, Threw("Job.update", <<id, data>>, "DbError", u))
        ELSE /\ jobs' = (jobs \ matched) \cup updated
             /\ LET job == FirstRow({JobRecord(j) : j \in updated})
                IN IF NotUpdated(job)
                   THEN Finish(p, Threw("Job.update", <<id, data>>, "NotFound", u))
                   ELSE Finish(p, Gave("Job.update", <<id, data>>, job, u))
  /\ UNCHANGED <<companies, nextId, out>>

\* const job = result.rows[0]; if (!job) -- and the same test of
\* Company.remove
NoneDeleted_Never(rows) == FALSE

NoneDeleted(rows) == rows = {}

\* Job.remove
Job_remove(p, id) ==
  /\ pc[p] = "idle"
  /\ LET deleted == JobsById(id)
     IN /\ jobs' = jobs \ deleted
        /\ IF NoneDeleted(deleted)
           THEN Finish(p, Threw("Job.remove", id, "NotFound", <<>>))
           ELSE Finish(p, Gave("Job.remove", id, <<>>, <<>>))
  /\ UNCHANGED <<companies, nextId, out>>

\* Company.remove: DELETE FROM companies WHERE handle = $1 RETURNING handle
Company_remove(p, handle) ==
  /\ pc[p] = "idle"
  /\ LET deleted == CompaniesByHandle(handle)
     IN /\ companies' = companies \ deleted
        /\ jobs' = jobs \ Cascade(deleted)
        /\ IF NoneDeleted(deleted)
           THEN Finish(p, Threw("Company.remove", handle, "NotFound", <<>>))
           ELSE Finish(p, Gave("Company.remove", handle, <<>>, <<>>))
  /\ UNCHANGED <<nextId, out>>

\* SELECT id, title, salary, equity FROM jobs WHERE company_handle = $1
JobsOfCompany_All(companyHandle) == jobs

JobsOfCompany(companyHandle) == {j \in jobs : j.company_handle = companyHandle}

\* a row of that SELECT
JobSummary(row) ==
  [id |-> row.id, title |-> row.title, salary |-> row.salary,
   equity |-> NumericText(row.equity)]

\* a SELECT without ORDER BY: the orders the store may return the rows in
AnyOrder(rows) ==
  {s \in [1..Cardinality(rows) -> rows] :
     \A i, j \in 1..Cardinality(rows) : i # j => s[i] # s[j]}

\* if (checkCompanyHandle.rows[0] === undefined)
HandleMissing_Never(rows) == FALSE

HandleMissing(rows) == rows = {}

\* Job.findAllByCompanyHandle: the check that the company exists
Job_findAllByCompanyHandle_check(p, companyHandle) ==
  /\ pc[p] = "idle"
  /\ IF HandleMissing(CompaniesByHandle(companyHandle))
     THEN Finish(p, Threw("Job.findAllByCompanyHandle", companyHandle, "NotFound", <<>>))
     ELSE /\ pc' = [pc EXCEPT ![p] = "Job.findAllByCompanyHandle:jobs"]
          /\ local' = [local EXCEPT ![p] = [companyHandle |-> companyHandle]]
          /\ UNCHANGED res
  /\ UNCHANGED <<companies, jobs, nextId, out>>

\* Job.findAllByCompanyHandle: the jobs of the company
Job_findAllByCompanyHandle_jobs(p) ==
  /\ pc[p] = "Job.findAllByCompanyHandle:jobs"
  /\ \E rows \in AnyOrder(JobsOfCompany(local[p].companyHandle)) :
       Finish(p, Gave("Job.findAllByCompanyHandle", local[p].companyHandle,
                      [i \in 1..Len(rows) |-> JobSummary(rows[i])], <<>>))
  /\ UNCHANGED <<companies, jobs, nextId, out>>

\* if (!company)
NoCompany_Never(rows) == FALSE

NoCompany(rows) == rows = {}

\* Company.get: SELECT ... FROM companies WHERE handle = $1
Company_get_company(p, handle) ==
  /\ pc[p] = "idle"
  /\ IF NoCompany(CompaniesByHandle(handle))
     THEN Finish(p, Threw("Company.get", handle, "NotFound", <<>>))
     ELSE \E c \in CompaniesByHandle(handle) :
            /\ pc' = [pc EXCEPT ![p] = "Company.get:check"]
            /\ local' = [local EXCEPT ![p] =
                           [handle |-> handle, company |-> CompanyRecord(c)]]
            /\ UNCHANGED res
  /\ UNCHANGED <<companies, jobs, nextId, out>>

\* Company.get, in Job.findAllByCompanyHandle: the check that the company
\* exists
Company_get_check(p) ==
  /\ pc[p] = "Company.get:check"
  /\ IF HandleMissing(CompaniesByHandle(local[p].handle))
     THEN Finish(p, Threw("Company.get", local[p].handle, "NotFound", <<>>))
     ELSE /\ pc' = [pc EXCEPT ![p] = "Company.get:jobs"]
          /\ UNCHANGED <<local, res>>
  /\ UNCHANGED <<companies, jobs, nextId, out>>

\* the company with company.jobs set
WithJobs(company, jobRecords) ==
  [handle |-> company.handle, name |-> company.name,
   description |-> company.description, numEmployees |-> company.numEmployees,
   logoUrl |-> company.logoUrl, jobs |-> jobRecords]

\* Company.get, in Job.findAllByCompanyHandle: the jobs of the company
Company_get_jobs(p) ==
  /\ pc[p] = "Company.get:jobs"
  /\ \E rows \in AnyOrder(JobsOfCompany(local[p].handle)) :
       Finish(p, Gave("Company.get", local[p].handle,
                      WithJobs(local[p].company,
                               [i \in 1..Len(rows) |-> JobSummary(rows[i])]), <<>>))
  /\ UNCHANGED <<companies, jobs, nextId, out>>

\* if (!job)
NoJob_Never(rows) == FALSE

NoJob(rows) == rows = {}

\* Job.get: SELECT ... FROM jobs WHERE id = $1
Job_get_job(p, id) ==
  /\ pc[p] = "idle"
  /\ IF NoJob(JobsById(id))
     THEN Finish(p, Threw("Job.get", id, "NotFound", <<>>))
     ELSE \E j \in JobsById(id) :
            /\ pc' = [pc EXCEPT ![p] = "Job.get:company"]
            /\ local' = [local EXCEPT ![p] = [id |-> id, job |-> JobRecord(j)]]
            /\ UNCHANGED res
  /\ UNCHANGED <<companies, jobs, nextId, out>>

\* job.company = company.rows[0]; delete job.companyHandle
WithCompany_KeepHandle(job, rows) == job

WithCompany(job, rows) ==
  [id |-> job.id, title |-> job.title, salary |-> job.salary, equity |-> job.equity,
   company |-> IF rows = {} THEN Undefined
               ELSE CompanyRecord(CHOOSE c \in rows : TRUE)]

\* Job.get: SELECT ... FROM companies WHERE handle = $1
Job_get_company(p) ==
  /\ pc[p] = "Job.get:company"
  /\ Finish(p, Gave("Job.get", local[p].id,
                    WithCompany(local[p].job,
                                CompaniesByHandle(local[p].job.companyHandle)), <<>>))
  /\ UNCHANGED <<companies, jobs, nextId, out>>

-----------------------------------------------------------------------------
(* The repositories called one call at a time by a single caller, with a    *)
(* small set of arguments for each operation.                               *)

C1Handle == <<"c", "1">>
C2Handle == <<"c", "2">>
Handles == {C1Handle, C2Handle}

\* a handle no company is ever created with
NoHandle == <<"n">>

\* the data of Company.create
CompanyData ==
  {[handle |-> C1Handle, name |-> <<"C", "1">>, description |-> <<"D">>,
    numEmployees |-> 1, logoUrl |-> <<"u">>],
   [handle |-> C2Handle, name |-> <<"c", "2">>, description |-> <<"D">>,
    numEmployees |-> NULL, logoUrl |-> NULLTEXT]}

\* the data of Job.create
JobData ==
  {[title |-> <<"J">>, salary |-> MaxSalary, equity |-> 5, companyHandle |-> C1Handle],
   [title |-> <<"J">>, salary |-> MaxSalary, equity |-> NULL, companyHandle |-> C2Handle]}

EmptyObject == [k \in {} |-> 0]

\* the data of Company.update
CompanyUpdates == {<<>>, <<[k |-> "name", v |-> <<"N">>]>>}

\* the data of Job.update
JobUpdates == {<<>>, <<[k |-> "title", v |-> <<"N">>]>>}

\* the filters of Company.findAll
CompanyFilters ==
  {CompanyFilterOf(ks, 1, 1, <<"c">>) : ks \in SUBSET {"minEmployees", "name"}}

\* the filters of Job.findAll
JobFilters ==
  {JobFilterOf(ks, <<"j">>, 1, he) : ks \in SUBSET {"hasEquity", "title"}, he \in BOOLEAN}

Init ==
  /\ companies = {} /\ jobs = {} /\ nextId = 1
  /\ pc = [p \in {1} |-> "idle"]
  /\ local = [p \in {1} |-> <<>>]
  /\ res = [p \in {1} |-> NoResult]
  /\ out = <<>>

CompanyCreateCheck ==
  \E p \in DOMAIN pc, data \in CompanyData : Company_create_check(p, data)

CompanyCreateInsert == \E p \in DOMAIN pc : Company_create_insert(p)

CompanyFindAll ==
  \E p \in DOMAIN pc, filterBy \in CompanyFilters : Company_findAll(p, filterBy)

CompanyUpdate ==
  \E p \in DOMAIN pc, handle \in Handles, data \in CompanyUpdates :
    Company_update(p, handle, data)

JobCreateCheck == \E p \in DOMAIN pc, data \in JobData : Job_create_check(p, data)

JobCreateInsert == \E p \in DOMAIN pc : Job_create_insert(p)

JobFindAll == \E p \in DOMAIN pc, filters \in JobFilters : Job_findAll(p, filters)

JobUpdate ==
  \E p \in DOMAIN pc, id \in 0..MaxJobs, data \in JobUpdates : Job_update(p, id, data)

JobRemove == \E p \in DOMAIN pc, id \in 0..MaxJobs : Job_remove(p, id)

CompanyRemove ==
  \E p \in DOMAIN pc, handle \in Handles \cup {NoHandle} : Company_remove(p, handle)

Next ==
  \/ CompanyCreateCheck
  \/ CompanyCreateInsert
  \/ CompanyFindAll
  \/ CompanyUpdate
  \/ CompanyRemove
  \/ JobCreateCheck
  \/ JobCreateInsert
  \/ JobFindAll
  \/ JobUpdate
  \/ JobRemove

Spec == Init /\ [][Next]_vars

-----------------------------------------------------------------------------
(* Claims about the repositories (checked under Spec) *)

\* C2: sqlForPartialUpdate fails with BadRequest on an empty mapping, so
\* Company.update and Job.update called with empty data fail with
\* BadRequest, whether or not the row exists, and leave both tables as they
\* were.
C2_EmptyUpdateRejected ==
  [][\A p \in DOMAIN pc :
       /\ \A handle \in Handles :
            Company_update(p, handle, <<>>) =>
              /\ res'[p].op = "Company.update"
              /\ res'[p].sql.err = "BadRequest"
              /\ res'[p].err = "BadRequest"
              /\ companies' = companies /\ jobs' = jobs
       /\ \A id \in 0..MaxJobs :
            Job_update(p, id, <<>>) =>
              /\ res'[p].op = "Job.update"
              /\ res'[p].sql.err = "BadRequest"
              /\ res'[p].err = "BadRequest"
              /\ companies' = companies /\ jobs' = jobs]_vars

\* an empty update of a job that exists, next to a company, was rejected
C2_Witness ==
  /\ res[1].op = "Job.update" /\ res[1].err = "BadRequest"
  /\ res[1].arg[2] = <<>>
  /\ JobsById(res[1].arg[1]) # {}
  /\ companies # {}

\* C5: the Company and the Job filter translators turn an empty filter into
\* the empty predicate and the empty value list, so findAll without a filter
\* returns every row of the table, each once.
C5_EmptyFilterSelectsAll ==
  [][\A p \in DOMAIN pc :
       /\ Job_sqlForPartialFilter(EmptyObject).whereClauses = ""
       /\ Job_sqlForPartialFilter(EmptyObject).values = <<>>
       /\ Job_sqlForPartialFilter_strict(EmptyObject).whereClauses = ""
       /\ Job_sqlForPartialFilter_strict(EmptyObject).values = <<>>
       /\ Company_findAll(p, EmptyObject) =>
            /\ res'[p].err = "none"
            /\ res'[p].sql.whereClauses = ""
            /\ res'[p].sql.values = <<>>
            /\ Len(res'[p].ret) = Cardinality(companies)
            /\ {res'[p].ret[i].handle : i \in 1..Len(res'[p].ret)}
                 = {c.handle : c \in companies}
       /\ Job_findAll(p, EmptyObject) =>
            /\ res'[p].err = "none"
            /\ res'[p].sql.whereClauses = ""
            /\ res'[p].sql.values = <<>>
            /\ Len(res'[p].ret) = Cardinality(jobs)
            /\ {res'[p].ret[i].id : i \in 1..Len(res'[p].ret)}
                 = {j.id : j \in jobs}]_vars

\* findAll without a filter has returned both jobs of the table
C5_Witness ==
  /\ res[1].op = "Job.findAll" /\ res[1].err = "none"
  /\ DOMAIN res[1].arg = {}
  /\ Cardinality(jobs) = 2
  /\ Len(res[1].ret) = 2
  /\ res[1].sql.whereClauses = ""

\* C9: Company.create fails with BadRequest and leaves the companies table
\* unchanged when a company with the handle exists; otherwise it inserts
\* exactly one row and returns a record equal to the data it was given.
C9_CompanyCreate ==
  [][\A p \in DOMAIN pc :
       /\ \A data \in CompanyData :
            Company_create_check(p, data) =>
              /\ companies' = companies
              /\ IF \E c \in companies : c.handle = data.handle
                 THEN /\ pc'[p] = "idle"
                      /\ res'[p].op = "Company.create"
                      /\ res'[p].err = "BadRequest"
                 ELSE pc'[p] = "Company.create:insert"
       /\ Company_create_insert(p) =>
            /\ res'[p].op = "Company.create"
            /\ res'[p].err = "none"
            /\ res'[p].ret = local[p]
            /\ Cardinality(companies') = Cardinality(companies) + 1
            /\ \E row \in companies' :
                 /\ companies' = companies \cup {row}
                 /\ row.handle = local[p].handle
                 /\ row.name = local[p].name
                 /\ row.description = local[p].description
                 /\ row.num_employees = local[p].numEmployees
                 /\ row.logo_url = local[p].logoUrl]_vars

\* a second Company.create for a handle that is stored was rejected
C9_Witness ==
  /\ res[1].op = "Company.create" /\ res[1].err = "BadRequest"
  /\ res[1].arg.handle = C2Handle
  /\ \E c \in companies : c.handle = C2Handle /\ c.num_employees = NULL
  /\ Cardinality(companies) = 2

\* C10: Job.create fails with BadRequest and inserts nothing when no company
\* has the handle companyHandle; when one has, it inserts exactly one job
\* row and returns the stored record (title, salary, equity, companyHandle)
\* with a generated id that no other job row has.
C10_JobCreate ==
  [][\A p \in DOMAIN pc :
       /\ \A data \in JobData :
            Job_create_check(p, data) =>
              /\ jobs' = jobs
              /\ IF \E c \in companies : c.handle = data.companyHandle
                 THEN pc'[p] = "Job.create:insert"
                 ELSE /\ pc'[p] = "idle"
                      /\ res'[p].op = "Job.create"
                      /\ res'[p].err = "BadRequest"
       /\ Job_create_insert(p) =>
            /\ res'[p].op = "Job.create"
            /\ res'[p].err = "none"
            /\ Cardinality(jobs') = Cardinality(jobs) + 1
            /\ \E row \in jobs' :
                 /\ jobs' = jobs \cup {row}
                 /\ \A j \in jobs : j.id # row.id
                 /\ row.title = local[p].title
                 /\ row.salary = local[p].salary
                 /\ row.equity = local[p].equity
                 /\ row.company_handle = local[p].companyHandle
                 /\ res'[p].ret =
                      [id |-> row.id, title |-> local[p].title,
                       salary |-> local[p].salary,
                       equity |-> IF local[p].equity = NULL THEN NULLTEXT
                                  ELSE <<"0", ".", "5">>,
                       companyHandle |-> local[p].companyHandle]]_vars

\* a second job was created and given an id of its own
C10_Witness ==
  /\ res[1].op = "Job.create" /\ res[1].err = "none"
  /\ res[1].ret.equity = <<"0", ".", "5">>
  /\ Cardinality(jobs) = 2
  /\ \E j \in jobs : j.id = res[1].ret.id
  /\ \E j \in jobs : j.id # res[1].ret.id

-----------------------------------------------------------------------------
(* The repositories' lookups and removals, called one call at a time by a   *)
(* single caller, on the rows the create calls have stored.                 *)

CompanyGetCompany ==
  \E p \in DOMAIN pc, handle \in Handles \cup {NoHandle} : Company_get_company(p, handle)

CompanyGetCheck == \E p \in DOMAIN pc : Company_get_check(p)

CompanyGetJobs == \E p \in DOMAIN pc : Company_get_jobs(p)

JobGetJob == \E p \in DOMAIN pc, id \in 0..MaxJobs : Job_get_job(p, id)

JobGetCompany == \E p \in DOMAIN pc : Job_get_company(p)

JobFindAllByCompanyHandleCheck ==
  \E p \in DOMAIN pc, companyHandle \in Handles \cup {NoHandle} :
    Job_findAllByCompanyHandle_check(p, companyHandle)

JobFindAllByCompanyHandleJobs == \E p \in DOMAIN pc : Job_findAllByCompanyHandle_jobs(p)

NextStore ==
  \/ CompanyCreateCheck
  \/ CompanyCreateInsert
  \/ JobCreateCheck
  \/ JobCreateInsert
  \/ CompanyRemove
  \/ JobRemove
  \/ CompanyGetCompany
  \/ CompanyGetCheck
  \/ CompanyGetJobs
  \/ JobGetJob
  \/ JobGetCompany
  \/ JobFindAllByCompanyHandleCheck
  \/ JobFindAllByCompanyHandleJobs

SpecStore == Init /\ [][NextStore]_vars

\* C11: Company.remove(handle) and Job.remove(id) fail with NotFound when no
\* row has the key; when a row has it the call succeeds, and in the state
\* right after it no row of the table has the key.
C11_Remove ==
  [][\A p \in DOMAIN pc :
       /\ \A handle \in Handles \cup {NoHandle} :
            Company_remove(p, handle) =>
              /\ res'[p].op = "Company.remove"
              /\ IF \E c \in companies : c.handle = handle
                 THEN /\ res'[p].err = "none"
                      /\ \A c \in companies' : c.handle # handle
                 ELSE res'[p].err = "NotFound"
       /\ \A id \in 0..MaxJobs :
            Job_remove(p, id) =>
              /\ res'[p].op = "Job.remove"
              /\ IF \E j \in jobs : j.id = id
                 THEN /\ res'[p].err = "none"
                      /\ \A j \in jobs' : j.id # id
                 ELSE res'[p].err = "NotFound"]_vars

\* a company was removed after jobs were created, and the other company is left
C11_Witness ==
  /\ res[1].op = "Company.remove" /\ res[1].err = "none"
  /\ res[1].arg = C1Handle
  /\ nextId > 1
  /\ \A c \in companies : c.handle # C1Handle
  /\ \E c \in companies : c.handle = C2Handle

\* the jobs of a company as Company.get and Job.findAllByCompanyHandle return
\* them: id, title, salary and equity (the stored number as text)
ExpectedJobs(handle) ==
  {[id |-> j.id, title |-> j.title, salary |-> j.salary,
    equity |-> IF j.equity = NULL THEN NULLTEXT ELSE <<"0", ".", "5">>] :
     j \in {x \in jobs : x.company_handle = handle}}

\* the sequence lists the records of the set, each once
Lists(seq, set) ==
  /\ Len(seq) = Cardinality(set)
  /\ {seq[i] : i \in 1..Len(seq)} = set

\* C15: Company.get(handle) fails with NotFound when no company has the
\* handle; otherwise it returns the record of the company with a jobs list
\* of exactly the jobs whose companyHandle is the handle, each with id,
\* title, salary and equity and without companyHandle.
C15_CompanyGet ==
  [][\A p \in DOMAIN pc :
       /\ \A handle \in Handles \cup {NoHandle} :
            Company_get_company(p, handle) =>
              IF \E c \in companies : c.handle = handle
              THEN pc'[p] = "Company.get:check"
              ELSE /\ pc'[p] = "idle"
                   /\ res'[p].op = "Company.get"
                   /\ res'[p].err = "NotFound"
       /\ Company_get_check(p) => pc'[p] = "Company.get:jobs"
       /\ Company_get_jobs(p) =>
            /\ res'[p].op = "Company.get"
            /\ res'[p].err = "none"
            /\ DOMAIN res'[p].ret =
                 {"handle", "name", "description", "numEmployees", "logoUrl", "jobs"}
            /\ \E c \in companies :
                 /\ c.handle = local[p].handle
                 /\ res'[p].ret.handle = c.handle
                 /\ res'[p].ret.name = c.name
                 /\ res'[p].ret.description = c.description
                 /\ res'[p].ret.numEmployees = c.num_employees
                 /\ res'[p].ret.logoUrl = c.logo_url
            /\ Lists(res'[p].ret.jobs, ExpectedJobs(local[p].handle))
            /\ \A i \in 1..Len(res'[p].ret.jobs) :
                 DOMAIN res'[p].ret.jobs[i] = {"id", "title", "salary", "equity"}]_vars

\* Company.get has returned a company with its one job, while the other
\* company has a job too
C15_Witness ==
  /\ res[1].op = "Company.get" /\ res[1].err = "none"
  /\ res[1].arg = C1Handle
  /\ Len(res[1].ret.jobs) = 1
  /\ res[1].ret.jobs[1].equity = <<"0", ".", "5">>
  /\ Cardinality(jobs) = 2
  /\ \E j \in jobs : j.company_handle = C2Handle

C17_FindAllByCompanyHandle ==
  [][\A p \in DOMAIN pc :
       /\ \A handle \in Handles \cup {NoHandle} :
            Job_findAllByCompanyHandle_check(p, handle) =>
              IF \E c \in companies : c.handle = handle
              THEN /\ pc'[p] = "Job.findAllByCompanyHandle:jobs"
                   /\ local'[p].companyHandle = handle
              ELSE /\ pc'[p] = "idle"
                   /\ res'[p].op = "Job.findAllByCompanyHandle"
                   /\ res'[p].err = "NotFound"
       /\ Job_findAllByCompanyHandle_jobs(p) =>
            /\ res'[p].op = "Job.findAllByCompanyHandle"
            /\ res'[p].err = "none"
            /\ Lists(res'[p].ret, ExpectedJobs(local[p].companyHandle))
            /\ (\A j \in jobs : j.company_handle # local[p].companyHandle)
                 => res'[p].ret = <<>>
            /\ \A i \in 1..Len(res'[p].ret) :
                 DOMAIN res'[p].ret[i] = {"id", "title", "salary", "equity"}]_vars

\* Job.findAllByCompanyHandle has returned the empty sequence for a company
\* without jobs, while the other company has two
C17_Witness ==
  /\ res[1].op = "Job.findAllByCompanyHandle" /\ res[1].err = "none"
  /\ res[1].arg = C2Handle
  /\ res[1].ret = <<>>
  /\ \E c \in companies : c.handle = C2Handle
  /\ Cardinality(jobs) = 2

-----------------------------------------------------------------------------
(* The updates, called one call at a time by a single caller on the rows    *)
(* the create calls have stored.                                            *)

\* Company.update: "Data can include: {name, description, numEmployees,
\* logoUrl}"
CompanyFieldUpdates ==
  {<<[k |-> "name", v |-> <<"N">>], [k |-> "numEmployees", v |-> MaxEmployees]>>,
   <<[k |-> "numEmployees", v |-> NULL], [k |-> "logoUrl", v |-> NULLTEXT]>>}

\* Job.update: "Data can include: {title, salary, equity}"
JobFieldUpdates ==
  {<<[k |-> "title", v |-> <<"N">>], [k |-> "salary", v |-> NULL],
     [k |-> "equity", v |-> NULL]>>}

CompanyUpdateFields ==
  \E p \in DOMAIN pc, handle \in Handles \cup {NoHandle}, data \in CompanyFieldUpdates :
    Company_update(p, handle, data)

JobUpdateFields ==
  \E p \in DOMAIN pc, id \in 0..MaxJobs, data \in JobFieldUpdates : Job_update(p, id, data)

NextUpdate ==
  \/ CompanyCreateCheck
  \/ CompanyCreateInsert
  \/ JobCreateCheck
  \/ JobCreateInsert
  \/ CompanyUpdateFields
  \/ JobUpdateFields

SpecUpdate == Init /\ [][NextUpdate]_vars

\* C12: Company.update(handle, data) and Job.update(id, data) with non-empty
\* data fail with NotFound when no row has the key, and then no row of the
\* store is changed.
C12_UpdateNotFound ==
  [][\A p \in DOMAIN pc :
       /\ \A handle \in Handles \cup {NoHandle}, data \in CompanyFieldUpdates :
            (Company_update(p, handle, data) /\ \A c \in companies : c.handle # handle) =>
              /\ res'[p].op = "Company.update"
              /\ res'[p].err = "NotFound"
              /\ companies' = companies /\ jobs' = jobs
       /\ \A id \in 0..MaxJobs, data \in JobFieldUpdates :
            (Job_update(p, id, data) /\ \A j \in jobs : j.id # id) =>
              /\ res'[p].op = "Job.update"
              /\ res'[p].err = "NotFound"
              /\ companies' = companies /\ jobs' = jobs]_vars

\* an update of a handle that no company has, made while another company
\* and a job are stored, has failed with NotFound
C12_Witness ==
  /\ res[1].op = "Company.update" /\ res[1].err = "NotFound"
  /\ res[1].arg[1] = C2Handle
  /\ Len(res[1].arg[2]) = 2
  /\ \A c \in companies : c.handle # C2Handle
  /\ companies # {} /\ jobs # {}

\* the data mapping has the field
Supplied(data, field) == \E i \in 1..Len(data) : data[i].k = field

\* the value the data mapping gives the field
ValueOf(data, field) == data[CHOOSE i \in 1..Len(data) : data[i].k = field].v

\* the field of the new row is the supplied value when the data has the
\* field, and the field of the old row when it has not
FieldUpdated(data, field, old, new) ==
  IF Supplied(data, field) THEN new = ValueOf(data, field) ELSE new = old

\* C13: a successful Company.update or Job.update sets the fields present in
\* the data to the supplied values (a supplied null is stored as null),
\* leaves the other fields of the row and every other row as they were, and
\* returns the row as it is stored after the update.
C13_UpdateFrame ==
  [][\A p \in DOMAIN pc :
       /\ \A handle \in Handles \cup {NoHandle}, data \in CompanyFieldUpdates :
            (Company_update(p, handle, data) /\ res'[p].err = "none") =>
              \E old \in companies, new \in companies' :
                /\ old.handle = handle /\ new.handle = handle
                /\ companies' \ {new} = companies \ {old}
                /\ jobs' = jobs
                /\ FieldUpdated(data, "name", old.name, new.name)
                /\ FieldUpdated(data, "description", old.description, new.description)
                /\ FieldUpdated(data, "numEmployees", old.num_employees, new.num_employees)
                /\ FieldUpdated(data, "logoUrl", old.logo_url, new.logo_url)
                /\ res'[p].ret =
                     [handle |-> new.handle, name |-> new.name,
                      description |-> new.description,
                      numEmployees |-> new.num_employees, logoUrl |-> new.logo_url]
       /\ \A id \in 0..MaxJobs, data \in JobFieldUpdates :
            (Job_update(p, id, data) /\ res'[p].err = "none") =>
              \E old \in jobs, new \in jobs' :
                /\ old.id = id /\ new.id = id
                /\ jobs' \ {new} = jobs \ {old}
                /\ companies' = companies
                /\ FieldUpdated(data, "title", old.title, new.title)
                /\ FieldUpdated(data, "salary", old.salary, new.salary)
                /\ FieldUpdated(data, "equity", old.equity, new.equity)
                /\ FieldUpdated(data, "companyHandle", old.company_handle,
                                new.company_handle)
                /\ res'[p].ret.id = new.id
                /\ res'[p].ret.title = new.title
                /\ res'[p].ret.salary = new.salary
                /\ res'[p].ret.equity = NumericText(new.equity)
                /\ res'[p].ret.companyHandle = new.company_handle]_vars

\* the title, salary and equity of the first of two jobs were updated, the
\* salary and the equity to null, and the call returned the stored row
C13_Witness ==
  /\ res[1].op = "Job.update" /\ res[1].err = "none"
  /\ res[1].arg[1] = 1
  /\ res[1].ret.salary = NULL /\ res[1].ret.equity = NULLTEXT
  /\ res[1].ret.companyHandle = C1Handle
  /\ \E j \in jobs : j.id = 1 /\ j.title = <<"N">> /\ j.salary = NULL /\ j.equity = NULL
  /\ \E j \in jobs : j.id = 2 /\ j.title = <<"J">> /\ j.salary = MaxSalary

-----------------------------------------------------------------------------
(* Job.update with data that names the company of the job.                  *)

\* data of Job.update that names the company of the job, by the name of the
\* field and by the name of the column
JobColumnUpdates ==
  {<<[k |-> "companyHandle", v |-> C2Handle]>>,
   <<[k |-> "company_handle", v |-> C2Handle]>>}

JobUpdateColumns ==
  \E p \in DOMAIN pc, id \in 0..MaxJobs, data \in JobColumnUpdates : Job_update(p, id, data)

NextJobUpdate ==
  \/ CompanyCreateCheck
  \/ CompanyCreateInsert
  \/ JobCreateCheck
  \/ JobCreateInsert
  \/ JobUpdateFields
  \/ JobUpdateColumns

SpecJobUpdate == Init /\ [][NextJobUpdate]_vars

\* C14: for every data mapping Job.update accepts, the job it updates
\* references the same company after the call as before it.
C14_CompanyHandleKept ==
  [][\A p \in DOMAIN pc :
       \A id \in 0..MaxJobs, data \in JobFieldUpdates \cup JobColumnUpdates :
         (Job_update(p, id, data) /\ res'[p].err = "none") =>
           \A old \in jobs, new \in jobs' :
             (old.id = id /\ new.id = id) => new.company_handle = old.company_handle]_vars

-----------------------------------------------------------------------------
(* findAll with filters, called one call at a time by a single caller on    *)
(* the rows the create and update calls have stored.                        *)

\* the name of a Company filter: a text in capitals, a selective one, and
\* one that is a LIKE wildcard
FindNames == {<<"C">>, <<"2">>, <<"_">>}

\* the title of a Job filter
FindTitles == {<<"j">>, <<"_">>}

\* the filters of Company.findAll
CompanyFindFilters ==
  {CompanyFilterOf(ks, 1, MaxEmployees, nm) :
     ks \in SUBSET {"minEmployees", "maxEmployees", "name"}, nm \in FindNames}

\* the filters of Job.findAll
JobFindFilters ==
  {JobFilterOf(ks, t, MaxSalary, he) :
     ks \in SUBSET {"title", "minSalary", "hasEquity"}, t \in FindTitles, he \in BOOLEAN}

CompanyFindAllBy ==
  \E p \in DOMAIN pc, filterBy \in CompanyFindFilters : Company_findAll(p, filterBy)

JobFindAllBy ==
  \E p \in DOMAIN pc, filters \in JobFindFilters : Job_findAll(p, filters)

NextFind ==
  \/ CompanyCreateCheck
  \/ CompanyCreateInsert
  \/ JobCreateCheck
  \/ JobCreateInsert
  \/ JobUpdateFields
  \/ CompanyFindAllBy
  \/ JobFindAllBy

SpecFind == Init /\ [][NextFind]_vars

\* the text contains the part, letters compared without regard to case
Contains(text, part) ==
  \E i \in 0..(Len(text) - Len(part)) :
    \A k \in 1..Len(part) : Lower(text[i + k]) = Lower(part[k])

\* the texts name[1], name[2], ... are in ascending order
Ascending(names) ==
  \E coll \in Collations :
    \A i, j \in 1..Len(names) : i < j => TextLeq(coll, names[i], names[j])

\* the companies that satisfy every criterion the filter has
CompaniesSatisfying(f) ==
  {c \in companies :
     /\ Has(f, "minEmployees") =>
          (c.num_employees # NULL /\ c.num_employees >= f["minEmployees"])
     /\ Has(f, "maxEmployees") =>
          (c.num_employees # NULL /\ c.num_employees <= f["maxEmployees"])
     /\ Has(f, "name") => Contains(c.name, f["name"])}

\* C18: for every valid Company filter, Company.findAll returns exactly the
\* companies that satisfy every criterion the filter has (numEmployees >=
\* minEmployees, numEmployees <= maxEmployees, name contains the text without
\* regard to case), each once, in ascending order of name.
C18_CompanyFindAll ==
  [][\A p \in DOMAIN pc, f \in CompanyFindFilters :
       (Company_findAll(p, f) /\ res'[p].err = "none") =>
         /\ Lists(res'[p].ret,
                  {[handle |-> c.handle, name |-> c.name, description |-> c.description,
                    numEmployees |-> c.num_employees, logoUrl |-> c.logo_url] :
                     c \in CompaniesSatisfying(f)})
         /\ Ascending([i \in 1..Len(res'[p].ret) |-> res'[p].ret[i].name])]_vars

\* the jobs that satisfy every criterion the filter has
JobsSatisfying(f) ==
  {j \in jobs :
     /\ Has(f, "title") => Contains(j.title, f["title"])
     /\ Has(f, "minSalary") => (j.salary # NULL /\ j.salary >= f["minSalary"])
     /\ (Has(f, "hasEquity") /\ f["hasEquity"] = TRUE) =>
          (j.equity # NULL /\ j.equity > 0)}

\* C19: for every Job filter, Job.findAll returns exactly the jobs that
\* satisfy every criterion the filter has (title contains the text without
\* regard to case, salary >= minSalary, equity above zero when hasEquity is
\* true), each once, in ascending order of title, each with the name of its
\* company as companyName.
C19_JobFindAll ==
  [][\A p \in DOMAIN pc, f \in JobFindFilters :
       (Job_findAll(p, f) /\ res'[p].err = "none") =>
         /\ Len(res'[p].ret) = Cardinality(JobsSatisfying(f))
         /\ {res'[p].ret[i].id : i \in 1..Len(res'[p].ret)}
              = {j.id : j \in JobsSatisfying(f)}
         /\ \A i \in 1..Len(res'[p].ret) :
              \E j \in jobs, c \in companies :
                /\ j.id = res'[p].ret[i].id
                /\ c.handle = j.company_handle
                /\ res'[p].ret[i].title = j.title
                /\ res'[p].ret[i].salary = j.salary
                /\ res'[p].ret[i].companyHandle = j.company_handle
                /\ res'[p].ret[i].companyName = c.name
         /\ Ascending([i \in 1..Len(res'[p].ret) |-> res'[p].ret[i].title])]_vars

-----------------------------------------------------------------------------
(* Two callers whose calls interleave round trip by round trip: the creates *)
(* of both repositories and Company.remove.                                 *)

InitRace ==
  /\ companies = {} /\ jobs = {} /\ nextId = 1
  /\ pc = [p \in {1, 2} |-> "idle"]
  /\ local = [p \in {1, 2} |-> <<>>]
  /\ res = [p \in {1, 2} |-> NoResult]
  /\ out = <<>>

NextRace ==
  \/ CompanyCreateCheck
  \/ CompanyCreateInsert
  \/ JobCreateCheck
  \/ JobCreateInsert
  \/ CompanyRemove

SpecRace == InitRace /\ [][NextRace]_vars

\* a job row whose companyHandle matches no company row
StaleJob(jobRows, companyRows) ==
  \E j \in jobRows : \A c \in companyRows : c.handle # j.company_handle

\* the company of the Job.create that caller p has in flight is gone
CompanyGone(p) == \A c \in companies : c.handle # local[p].companyHandle

\* C20 as stated: when Company.remove(h) has run between the existence check
\* and the insert of Job.create({companyHandle: h}), Job.create succeeds and
\* the resulting state has a job row whose companyHandle matches no company
\* row.
C20_StaleReference ==
  [][\A p \in DOMAIN pc :
       (Job_create_insert(p) /\ CompanyGone(p)) =>
         /\ res'[p].err = "none"
         /\ StaleJob(jobs', companies')]_vars

\* C20 as amended: the existence check and the insert of Job.create are two
\* round trips and Company.remove(h) can run between them; the store then
\* refuses the insert, Job.create fails with the error of the store and
\* inserts nothing, and no state has a job row whose companyHandle matches
\* no company row.
C20_InsertRefused ==
  [][/\ ~StaleJob(jobs', companies')
     /\ \A p \in DOMAIN pc :
          (Job_create_insert(p) /\ CompanyGone(p)) =>
            /\ res'[p].op = "Job.create"
            /\ res'[p].err = "DbError"
            /\ jobs' = jobs]_vars

\* the second caller removed the company after the first caller's
\* Job.create had found it, and the Job.create has failed in its insert
C20_Witness ==
  /\ res[1].op = "Job.create" /\ res[1].err = "DbError"
  /\ res[2].op = "Company.remove" /\ res[2].err = "none"
  /\ res[2].arg = res[1].arg.companyHandle
  /\ pc[1] = "idle" /\ pc[2] = "idle"
  /\ \A c \in companies : c.handle # res[1].arg.companyHandle

-----------------------------------------------------------------------------
(* Every operation of the two repositories, called one call at a time by a  *)
(* single caller.                                                           *)

\* filters of Company.findAll with both bounds: one range that is empty and
\* one that is not
RangeFilters ==
  {CompanyFilterOf({"minEmployees", "maxEmployees"}, MaxEmployees, 1, <<>>),
   CompanyFilterOf({"minEmployees", "maxEmployees"}, 1, MaxEmployees, <<>>)}

CompanyFindAllRange ==
  \E p \in DOMAIN pc, filterBy \in RangeFilters : Company_findAll(p, filterBy)

NextAll ==
  \/ CompanyCreateCheck
  \/ CompanyCreateInsert
  \/ CompanyFindAll
  \/ CompanyFindAllRange
  \/ CompanyGetCompany
  \/ CompanyGetCheck
  \/ CompanyGetJobs
  \/ CompanyUpdate
  \/ CompanyRemove
  \/ JobCreateCheck
  \/ JobCreateInsert
  \/ JobFindAll
  \/ JobGetJob
  \/ JobGetCompany
  \/ JobFindAllByCompanyHandleCheck
  \/ JobFindAllByCompanyHandleJobs
  \/ JobUpdate
  \/ JobRemove

SpecAll == Init /\ [][NextAll]_vars

\* C21: create, findAll, get, findAllByCompanyHandle, update and remove of
\* either repository leave both tables as they were before the call when
\* the call ends in BadRequest or NotFound: no step of a call changes a row
\* unless it is the step that ends the call without such an error.
C21_FailureChangesNothing ==
  [][\A p \in DOMAIN pc :
       (pc'[p] # "idle" \/ res'[p].err \in {"BadRequest", "NotFound"}) =>
         (companies' = companies /\ jobs' = jobs)]_vars

\* a Company.findAll with an empty range has failed with BadRequest while
\* companies and jobs are stored
C21_Witness ==
  /\ res[1].op = "Company.findAll" /\ res[1].err = "BadRequest"
  /\ pc[1] = "idle"
  /\ Cardinality(companies) = 2 /\ jobs # {}

-----------------------------------------------------------------------------
(* Two callers whose Company.create, Company.update and Company.remove      *)
(* calls interleave round trip by round trip.                               *)

\* the data of Company.update: a new handle, a new name
CompanyHandleUpdates ==
  {<<[k |-> "handle", v |-> C2Handle]>>, <<[k |-> "name", v |-> <<"N">>]>>}

CompanyUpdateHandle ==
  \E p \in DOMAIN pc, handle \in Handles, data \in CompanyHandleUpdates :
    Company_update(p, handle, data)

NextCompanyRace ==
  \/ CompanyCreateCheck
  \/ CompanyCreateInsert
  \/ CompanyUpdateHandle
  \/ CompanyRemove

SpecCompanyRace == InitRace /\ [][NextCompanyRace]_vars

\* the handle of the Company.create that caller p has in flight is stored
HandleTaken(p) == \E c \in companies : c.handle = local[p].handle

\* C24: under any interleaving of the round trips of concurrent
\* Company.create, Company.update and Company.remove calls, no two company
\* rows share a handle; when two Company.create calls for the same handle
\* both pass the duplicate check before either inserts, at most one of them
\* returns a stored record: the insert that finds the handle stored fails
\* and stores nothing.
C24_HandlesUnique ==
  [][/\ \A a, b \in companies' : a.handle = b.handle => a = b
     /\ \A p \in DOMAIN pc :
          (Company_create_insert(p) /\ HandleTaken(p)) =>
            /\ res'[p].op = "Company.create"
            /\ res'[p].err # "none"
            /\ companies' = companies]_vars

\* both callers passed the duplicate check for the same handle before
\* either inserted; the first got its record, the second an error, and the
\* handle is stored once
C24_Witness ==
  /\ pc[1] = "idle" /\ pc[2] = "idle"
  /\ res[1].op = "Company.create" /\ res[1].err = "none"
  /\ res[2].op = "Company.create" /\ res[2].err = "DbError"
  /\ res[1].arg.handle = res[2].arg.handle
  /\ Cardinality({c \in companies : c.handle = res[1].arg.handle}) = 1

-----------------------------------------------------------------------------
(* Two callers: the Company.get calls of the first interleave, round trip  *)
(* by round trip, with the creates of both repositories and the             *)
(* Company.remove calls of the second.                                      *)

ReaderGetCompany ==
  \E handle \in Handles \cup {NoHandle} : Company_get_company(1, handle)

ReaderGetCheck == Company_get_check(1)

ReaderGetJobs == Company_get_jobs(1)

WriterCompanyCreateCheck == \E data \in CompanyData : Company_create_check(2, data)

WriterCompanyCreateInsert == Company_create_insert(2)

WriterJobCreateCheck == \E data \in JobData : Job_create_check(2, data)

WriterJobCreateInsert == Job_create_insert(2)

WriterCompanyRemove ==
  \E handle \in Handles \cup {NoHandle} : Company_remove(2, handle)

NextGetRace ==
  \/ WriterCompanyCreateCheck
  \/ WriterCompanyCreateInsert
  \/ WriterJobCreateCheck
  \/ WriterJobCreateInsert
  \/ WriterCompanyRemove
  \/ ReaderGetCompany
  \/ ReaderGetCheck
  \/ ReaderGetJobs

SpecGetRace == InitRace /\ [][NextGetRace]_vars

\* the company that the Company.get of caller p has read is no longer stored
CompanyRemoved(p) == \A c \in companies : c.handle # local[p].handle

\* C25: Company.get never returns a company record without its jobs list;
\* after reading the company it calls Job.findAllByCompanyHandle, which
\* checks again that the company exists, so when Company.remove(handle) has
\* completed between those two round trips Company.get fails with NotFound
\* instead of returning the removed company.
C25_GetAfterRemove ==
  [][\A p \in DOMAIN pc :
       /\ (res'[p] # res[p] /\ res'[p].op = "Company.get"
              /\ res'[p].err = "none") =>
            /\ Company_get_jobs(p)
            /\ DOMAIN res'[p].ret =
                 {"handle", "name", "description", "numEmployees", "logoUrl", "jobs"}
       /\ (Company_get_check(p) /\ CompanyRemoved(p)) =>
            /\ pc'[p] = "idle"
            /\ res'[p].op = "Company.get"
            /\ res'[p].arg = local[p].handle
            /\ res'[p].err = "NotFound"]_vars

\* the first caller's Company.get has read the company and stands before
\* the check of Job.findAllByCompanyHandle, and the second caller's
\* Company.remove of that company, which had a job, has completed
C25_Witness ==
  /\ pc[1] = "Company.get:check" /\ pc[2] = "idle"
  /\ res[2].op = "Company.remove" /\ res[2].err = "none"
  /\ res[2].arg = local[1].handle
  /\ CompanyRemoved(1)
  /\ nextId > 1 /\ jobs = {}

=============================================================================
